---- MODULE Spec2Model ----
(***************************************************************************)
(* A model of lineax/_misc.py (the numeric utility layer of lineax) and of *)
(* the error contract of linear_solve.                                     *)
(*                                                                         *)
(* Each utility is modelled by its own specification over its own          *)
(* variables; the variables of the other utilities stay at Idle.           *)
(*   SpecCache    cached_eval_shape and its functools.lru_cache            *)
(*   SpecRcond    resolve_rcond                                            *)
(*   SpecJacobian jacobian                                                 *)
(*   SpecNorm     _two_norm and its custom derivative _two_norm_jvp        *)
(*   SpecDot      tree_dot                                                 *)
(*   SpecAsarray  inexact_asarray                                          *)
(*   SpecSolve    linear_solve (its error contract; the code is not in     *)
(*                lineax/_misc.py and is modelled from the specification)  *)
(***************************************************************************)
EXTENDS Integers, Sequences, FiniteSets, TLC

VARIABLES
    cache,      \* the lru_cache of _cached_eval_shape, least recently used first
    nextCall,   \* index of the next call not made yet
    lastCall,   \* the latest call of cached_eval_shape
    ret,        \* what the latest call returned
    lastHit,    \* whether the latest call skipped the shape inference
    evicted,    \* the keys the latest call dropped from the cache
    recency,    \* the keys held, in the order of their latest use
    rc,         \* a call of resolve_rcond: its arguments and its result
    jac,        \* a call of jacobian: its arguments and its result
    nrm,        \* a call of _two_norm_jvp: primal, tangent and its results
    td,         \* a call of tree_dot: its arguments and its result
    ia,         \* inexact_asarray applied to an input, then to its own output
    ls          \* a call of linear_solve: its arguments and its outcome

cacheVars == <<cache, nextCall, lastCall, ret, lastHit, evicted, recency>>

vars == <<cache, nextCall, lastCall, ret, lastHit, evicted, recency, rc, jac,
          nrm, td, ia, ls>>

None == [kind |-> "none"]

\* The value of the variables of a utility that is not in use.
Idle == [pc |-> "idle"]

CacheIdle ==
    /\ cache = <<>>
    /\ nextCall = 1
    /\ lastCall = None
    /\ ret = None
    /\ lastHit = FALSE
    /\ evicted = {}
    /\ recency = <<>>

Max(a, b) == IF a >= b THEN a ELSE b

(***************************************************************************)
(* cached_eval_shape                                                       *)
(***************************************************************************)

\* functools.lru_cache(maxsize=128) on _cached_eval_shape.
maxsize == 128

\* Number of distinct calls (function, argument structure) the callers make.
NumCalls == 136

\* Array payloads: the values an array argument may hold.
MaxValue == 1

\* The calls a caller may repeat at any time; every other call is first made
\* in the order of its index (the caches of two runs that differ only in the
\* order of first use are renamings of each other).
HotCalls == {1}

Arr(shape, dtype, value) ==
    [kind |-> "array", shape |-> shape, dtype |-> dtype, value |-> value]

Struct(shape, dtype) == [kind |-> "struct", shape |-> shape, dtype |-> dtype]

Static(value) == [kind |-> "static", value |-> value]

\* A keyword argument.
Kw(name, leaf) == [name |-> name, leaf |-> leaf]

\* The i-th call of the callers: a function, its positional arguments and
\* its keyword arguments (sorted by name), the array arguments holding the
\* value v.
CallOf(i, v) ==
    CASE i % 4 = 1 -> [fn |-> "id", kwargs |-> <<>>,
                       args |-> <<Arr(<<(i + 3) \div 4>>, "float32", v)>>]
      [] i % 4 = 2 -> [fn |-> "id", kwargs |-> <<>>,
                       args |-> <<Arr(<<(i + 2) \div 4>>, "float64", v)>>]
      [] i % 4 = 3 -> [fn |-> "tile", kwargs |-> <<>>,
                       args |-> <<Arr(<<2>>, "float32", v), Static(i)>>]
      [] i % 8 = 4 -> [fn |-> "cast", kwargs |-> <<>>,
                       args |-> <<Arr(<<(i + 4) \div 8>>, "float32", v)>>]
      [] OTHER     -> [fn |-> "cast", args |-> <<>>,
                       kwargs |-> <<Kw("x", Arr(<<i \div 8>>, "float32", v))>>]

AllCalls == {CallOf(i, v) : i \in 1..NumCalls, v \in 0..MaxValue}

\* eqx.is_array
is_array(x) == x.kind = "array"

\* A faulty variant of _to_struct: the dtype of an array is not kept.
ToStructNoDtype(x) == IF is_array(x) THEN Struct(x.shape, "float32") ELSE x

\* _to_struct: an array becomes its ShapeDtypeStruct, anything else is kept.
ToStruct(x) == IF is_array(x) THEN Struct(x.shape, x.dtype) ELSE x

\* The abstract value jax.eval_shape traces an argument with.
Aval(x) == IF is_array(x) THEN Struct(x.shape, x.dtype) ELSE x

\* eqx.filter_eval_shape(fn, *args, **kwargs): the output structure of fn,
\* found by tracing fn on the abstract values of its arguments. The three
\* functions have an output structure that depends on input shapes, dtypes
\* and static arguments only: id(x) = x, cast(x) = x.astype(float64),
\* tile(x, n) = n stacked copies of x.
FilterEvalShape(fn, args, kwargs) ==
    LET a == [j \in DOMAIN args |-> Aval(args[j])]
        x == IF kwargs = <<>> THEN a[1] ELSE Aval(kwargs[1].leaf)
    IN  CASE fn = "id"   -> x
          [] fn = "cast" -> Struct(x.shape, "float64")
          [] fn = "tile" -> Struct(<<a[2].value>> \o x.shape, x.dtype)

\* The lru_cache key of a call: the flattened leaves of
\* tree_map(_to_struct, (fn, args, kwargs)) and the tree structure.
KeyOf(call) ==
    [leaves  |-> <<call.fn>>
                 \o [j \in DOMAIN call.args |-> ToStruct(call.args[j])]
                 \o [j \in DOMAIN call.kwargs |-> ToStruct(call.kwargs[j].leaf)],
     treedef |-> [nargs |-> Len(call.args),
                  names |-> [j \in DOMAIN call.kwargs |-> call.kwargs[j].name]]]

\* jtu.tree_unflatten(treedef, leaves)
tree_unflatten(treedef, leaves) ==
    [fn     |-> leaves[1],
     args   |-> SubSeq(leaves, 2, 1 + treedef.nargs),
     kwargs |-> [j \in DOMAIN treedef.names |->
                    Kw(treedef.names[j], leaves[1 + treedef.nargs + j])]]

\* _cached_eval_shape's body: rebuild (fn, args, kwargs) from the key and
\* infer the output structure.
Compute(key) ==
    LET t == tree_unflatten(key.treedef, key.leaves)
    IN  FilterEvalShape(t.fn, t.args, t.kwargs)

Keys(c) == {c[j].key : j \in DOMAIN c}

IndexOf(c, key) == CHOOSE j \in DOMAIN c : c[j].key = key

Remove(c, j) == SubSeq(c, 1, j - 1) \o SubSeq(c, j + 1, Len(c))

\* A faulty variant of the hit path: the entry keeps its place in the recency order.
LruTouchNoMove(c, key) == c

\* lru_cache hit: the entry becomes the most recently used one (the cache
\* is ordered from least to most recently used).
LruTouch(c, key) ==
    LET j == IndexOf(c, key) IN Append(Remove(c, j), c[j])

\* A faulty variant of the miss path: the cache is never trimmed.
LruInsertNoEvict(c, key, val) == Append(c, [key |-> key, val |-> val])

\* lru_cache miss: the new entry is the most recently used one; a full
\* cache first drops its least recently used entry.
LruInsert(c, key, val) ==
    IF Len(c) >= maxsize
    THEN Append(Tail(c), [key |-> key, val |-> val])
    ELSE Append(c, [key |-> key, val |-> val])

\* cached_eval_shape(fn, *args): one whole call.
CachedEvalShape(call) ==
    LET key == KeyOf(call)
    IN  /\ lastCall' = call
        /\ IF key \in Keys(cache)
           THEN /\ lastHit' = TRUE
                /\ ret' = cache[IndexOf(cache, key)].val
                /\ cache' = LruTouch(cache, key)
                /\ evicted' = {}
           ELSE LET val == Compute(key)
                IN  /\ lastHit' = FALSE
                    /\ ret' = val
                    /\ cache' = LruInsert(cache, key, val)
                    /\ evicted' = Keys(cache) \ Keys(cache')
        /\ recency' = LET rest(k) == k # key /\ k \notin evicted'
                       IN  SelectSeq(recency, rest) \o <<key>>

\* A call made for the first time.
CallFresh ==
    /\ nextCall <= NumCalls
    /\ \E v \in 0..MaxValue : CachedEvalShape(CallOf(nextCall, v))
    /\ nextCall' = nextCall + 1

\* A call made before, made again (with any array values).
CallAgain ==
    /\ \E i \in HotCalls, v \in 0..MaxValue :
          /\ i < nextCall
          /\ CachedEvalShape(CallOf(i, v))
    /\ UNCHANGED nextCall

InitCache ==
    /\ CacheIdle
    /\ ia = Idle
    /\ ls = Idle
    /\ rc = Idle
    /\ jac = Idle
    /\ nrm = Idle
    /\ td = Idle

NextCache ==
    \/ CallFresh /\ UNCHANGED <<rc, jac, nrm, td, ia, ls>>
    \/ CallAgain /\ UNCHANGED <<rc, jac, nrm, td, ia, ls>>

SpecCache == InitCache /\ [][NextCache]_vars

\* Two arguments that differ at most in the values an array holds.
SameLeaf(x, y) ==
    IF is_array(x)
    THEN is_array(y) /\ x.shape = y.shape /\ x.dtype = y.dtype
    ELSE x = y

\* Two calls of one function with the same positional and keyword
\* arguments up to the values of their arrays.
SameSignature(c1, c2) ==
    /\ c1.fn = c2.fn
    /\ Len(c1.args) = Len(c2.args)
    /\ \A j \in DOMAIN c1.args : SameLeaf(c1.args[j], c2.args[j])
    /\ Len(c1.kwargs) = Len(c2.kwargs)
    /\ \A j \in DOMAIN c1.kwargs :
          /\ c1.kwargs[j].name = c2.kwargs[j].name
          /\ SameLeaf(c1.kwargs[j].leaf, c2.kwargs[j].leaf)

\* Calls agree on their key exactly when they agree on the function and on
\* the shapes and dtypes of the arrays and the values of everything else.
KeyIsSignature ==
    \A c1, c2 \in AllCalls :
        (KeyOf(c1) = KeyOf(c2)) <=> SameSignature(c1, c2)

\* C1: the cache never holds more than 128 entries, and a call with a new
\* key that arrives while 128 entries are held drops exactly one entry, the
\* least recently used one, and inserts the new key.
C1_CacheCapped ==
    /\ [](Len(cache) <= 128 /\ Cardinality(Keys(cache)) = Len(cache))
    /\ [][(Len(cache) = 128 /\ KeyOf(lastCall') \notin Keys(cache))
            => /\ Len(cache') = 128
               /\ Keys(cache) \ Keys(cache') = {Head(recency)}
               /\ Keys(cache') \ Keys(cache) = {KeyOf(lastCall')}]_vars

\* C1 witness: a full cache has dropped an entry for a new key while the
\* first key, inserted first but used again later, is still held.
C1_Witness ==
    /\ Len(cache) = 128
    /\ evicted # {}
    /\ KeyOf(CallOf(1, 0)) \in Keys(cache)

\* C2 as stated: no call ever removes a key from the cache.
C2_AppendOnly == [][Keys(cache) \subseteq Keys(cache')]_vars

\* C2 amended: a key leaves the cache only when a call with a new key
\* arrives while 128 entries are held, and then it is the least recently
\* used key; a call whose key is held is a hit that returns the stored
\* entry without running the shape inference and removes nothing.
C2_RemovedOnlyByEviction ==
    /\ [][\A k \in Keys(cache) \ Keys(cache') :
            /\ Len(cache) = 128
            /\ ~lastHit'
            /\ k = Head(recency)]_vars
    /\ [][KeyOf(lastCall') \in Keys(cache)
            => /\ lastHit'
               /\ ret' = cache[IndexOf(cache, KeyOf(lastCall'))].val
               /\ Keys(cache') = Keys(cache)]_vars

\* C2 witness: a hit on a key that survived evictions.
C2_Witness ==
    /\ lastHit
    /\ nextCall > 128 + 2
    /\ Len(cache) = 128

\* C3: every call returns what the uncached shape inference of the function
\* on the call's own arguments returns, and the key of a call is its
\* function with the shapes and dtypes of its arrays and the values of its
\* other arguments.
C3_ReturnsUncachedResult ==
    /\ lastCall # None
          => ret = FilterEvalShape(lastCall.fn, lastCall.args, lastCall.kwargs)
    /\ KeyIsSignature

\* C3 witness: after evictions, a call of id on a float32 array of shape
\* (1,) holding the value 1 was a hit and returned that structure.
C3_Witness ==
    /\ lastHit
    /\ lastCall = CallOf(1, 1)
    /\ ret = Struct(<<1>>, "float32")
    /\ nextCall > 128 + 2

\* C3 witness: the same call missing after its entry was evicted.
C3_WitnessMissAfterEviction ==
    /\ ~lastHit
    /\ lastCall = CallOf(1, 1)
    /\ ret = Struct(<<1>>, "float32")
    /\ Len(cache) = 128

(***************************************************************************)
(* resolve_rcond                                                           *)
(***************************************************************************)

\* Largest operator dimension.
MaxDim == 3

\* Largest mantissa of a supplied rcond.
MaxMant == 2

\* The binary floating-point number mant * 2^exp, in normal form (an odd
\* mantissa, or zero).
RECURSIVE Flt(_, _)
Flt(mant, exp) ==
    IF mant = 0 THEN [kind |-> "float", m |-> 0, e |-> 0]
    ELSE IF mant % 2 = 0 THEN Flt(mant \div 2, exp + 1)
    ELSE [kind |-> "float", m |-> mant, e |-> exp]

\* jnp.finfo(dtype).eps
FinfoEps(dtype) ==
    CASE dtype \in {"float16"}                -> Flt(1, -10)
      [] dtype \in {"float32", "complex64"}   -> Flt(1, -23)
      [] dtype \in {"float64", "complex128"}  -> Flt(1, -52)

\* float * int (exact for the small integers used).
FltTimesInt(x, k) == Flt(x.m * k, x.e)

\* x < 0
FltNegative(x) == x.m < 0

RcondDtypes == {"float16", "float32", "float64", "complex64", "complex128"}

RcondExps == {-52, -23, -10, 0}

\* The rcond arguments: None or a number.
Rconds == {None} \cup {Flt(mant, exp) : mant \in (0 - MaxMant)..MaxMant, exp \in RcondExps}

\* A faulty variant of resolve_rcond: zero is replaced like a negative rcond.
ResolveRcondZeroToo(rcond, n, m, dtype) ==
    IF rcond = None
    THEN FltTimesInt(FinfoEps(dtype), Max(n, m))
    ELSE IF rcond.m <= 0 THEN FinfoEps(dtype) ELSE rcond

\* A faulty variant of resolve_rcond: a negative rcond gets the None default.
ResolveRcondNegScaled(rcond, n, m, dtype) ==
    IF rcond = None
    THEN FltTimesInt(FinfoEps(dtype), Max(n, m))
    ELSE IF FltNegative(rcond) THEN FltTimesInt(FinfoEps(dtype), Max(n, m)) ELSE rcond

\* resolve_rcond(rcond, n, m, dtype)
resolve_rcond(rcond, n, m, dtype) ==
    IF rcond = None
    THEN FltTimesInt(FinfoEps(dtype), Max(n, m))
    ELSE IF FltNegative(rcond) THEN FinfoEps(dtype) ELSE rcond

InitRcond ==
    /\ CacheIdle
    /\ ia = Idle
    /\ ls = Idle
    /\ jac = Idle
    /\ nrm = Idle
    /\ td = Idle
    /\ \E rcond \in Rconds, n \in 0..MaxDim, m \in 0..MaxDim, dtype \in RcondDtypes :
          rc = [pc |-> "call", rcond |-> rcond, n |-> n, m |-> m, dtype |-> dtype,
                out |-> None]

CallResolveRcond ==
    /\ rc.pc = "call"
    /\ rc' = [rc EXCEPT !.pc = "done",
                         !.out = resolve_rcond(rc.rcond, rc.n, rc.m, rc.dtype)]
    /\ UNCHANGED <<cacheVars, jac, nrm, td, ia, ls>>

NextRcond == CallResolveRcond

SpecRcond == InitRcond /\ [][NextRcond]_vars

\* C4 as stated: a negative rcond returns what rcond = None returns.
C4_NegativeIsNoneDefault ==
    (rc.pc = "done" /\ rc.rcond # None /\ FltNegative(rc.rcond))
        => rc.out = FltTimesInt(FinfoEps(rc.dtype), Max(rc.n, rc.m))

\* C4 amended: for every rcond < 0 and every n, m, dtype, resolve_rcond does
\* not fail and returns machine_epsilon(dtype), not scaled by max(n, m); this
\* is what rcond = None returns exactly when max(n, m) = 1.
C4_NegativeIsEps ==
    (rc.pc = "done" /\ rc.rcond # None /\ FltNegative(rc.rcond))
        => /\ rc.out = FinfoEps(rc.dtype)
           /\ (rc.out = FltTimesInt(FinfoEps(rc.dtype), Max(rc.n, rc.m)))
                 <=> (Max(rc.n, rc.m) = 1)

\* C4 witness: a negative rcond resolved for a 3 x 2 operator.
C4_Witness ==
    /\ rc.pc = "done"
    /\ rc.rcond = Flt(-1, 0)
    /\ rc.n = 3 /\ rc.m = 2
    /\ rc.out = FinfoEps(rc.dtype)

\* C5: with rcond = None the result is machine_epsilon(dtype) * max(n, m);
\* a supplied rcond >= 0 (0 included) is returned unchanged.
C5_DefaultAndPassThrough ==
    rc.pc = "done" =>
        /\ rc.rcond = None => rc.out = Flt(Max(rc.n, rc.m), FinfoEps(rc.dtype).e)
        /\ (rc.rcond # None /\ rc.rcond.m >= 0) => rc.out = rc.rcond

\* C5 witness: rcond = 0 was returned as 0.
C5_Witness ==
    /\ rc.pc = "done"
    /\ rc.rcond = Flt(0, 0)
    /\ rc.out = Flt(0, 0)
    /\ rc.n = 2

\* C5 witness of the default: eps * 3 for a 2 x 3 operator in float32.
C5_WitnessDefault ==
    /\ rc.pc = "done"
    /\ rc.rcond = None
    /\ rc.n = 2 /\ rc.m = 3 /\ rc.dtype = "float32"
    /\ rc.out = Flt(3, -23)

(***************************************************************************)
(* jacobian                                                                *)
(***************************************************************************)

\* Largest input size and output size of the differentiated function.
MaxInSize == 104

MaxOutSize == 70

JacFns == {"f", "g"}

\* 1.5 * x as a fraction: the product is exact in binary floating point.
OneAndHalfTimes(x) == [num |-> 3 * x, den |-> 2]

\* i <= q for an integer i and a fraction q
IntLeqFrac(i, q) == i * q.den <= q.num

jacfwd(fn, has_aux) == [mode |-> "jacfwd", fn |-> fn, has_aux |-> has_aux]

jacrev(fn, has_aux) == [mode |-> "jacrev", fn |-> fn, has_aux |-> has_aux]

\* A faulty variant of jacobian: the threshold 100 itself counts as small.
JacobianInclusive(fn, in_size, out_size, has_aux) ==
    IF (in_size <= 100) \/ IntLeqFrac(in_size, OneAndHalfTimes(out_size))
    THEN jacfwd(fn, has_aux)
    ELSE jacrev(fn, has_aux)

\* jacobian(fn, in_size, out_size, has_aux)
jacobian(fn, in_size, out_size, has_aux) ==
    IF (in_size < 100) \/ IntLeqFrac(in_size, OneAndHalfTimes(out_size))
    THEN jacfwd(fn, has_aux)
    ELSE jacrev(fn, has_aux)

InitJacobian ==
    /\ CacheIdle
    /\ ia = Idle
    /\ ls = Idle
    /\ rc = Idle
    /\ nrm = Idle
    /\ td = Idle
    /\ \E fn \in JacFns, i \in 0..MaxInSize, o \in 0..MaxOutSize, aux \in BOOLEAN :
          jac = [pc |-> "call", fn |-> fn, in_size |-> i, out_size |-> o,
                 has_aux |-> aux, out |-> None]

CallJacobian ==
    /\ jac.pc = "call"
    /\ jac' = [jac EXCEPT !.pc = "done",
                           !.out = jacobian(jac.fn, jac.in_size, jac.out_size, jac.has_aux)]
    /\ UNCHANGED <<cacheVars, rc, nrm, td, ia, ls>>

NextJacobian == CallJacobian

SpecJacobian == InitJacobian /\ [][NextJacobian]_vars

\* C6: forward mode is chosen exactly when in_size < 100 or
\* 2 * in_size <= 3 * out_size, reverse mode otherwise; fn and has_aux are
\* handed to the chosen mode unchanged and play no part in the choice.
C6_ModeChoice ==
    jac.pc = "done" =>
        /\ jac.out.mode \in {"jacfwd", "jacrev"}
        /\ (jac.out.mode = "jacfwd")
              <=> (jac.in_size < 100 \/ 2 * jac.in_size <= 3 * jac.out_size)
        /\ jac.out.fn = jac.fn
        /\ jac.out.has_aux = jac.has_aux

\* C6 witness: reverse mode for 100 inputs and 66 outputs.
C6_Witness ==
    /\ jac.pc = "done"
    /\ jac.in_size = 100 /\ jac.out_size = 66
    /\ jac.has_aux
    /\ jac.out.mode = "jacrev"

\* C6 witness: forward mode for 100 inputs and 67 outputs.
C6_WitnessForward ==
    /\ jac.pc = "done"
    /\ jac.in_size = 100 /\ jac.out_size = 67
    /\ jac.out.mode = "jacfwd"

(***************************************************************************)
(* _two_norm and _two_norm_jvp                                             *)
(*                                                                         *)
(* Floating-point numbers are a small format with the special values of    *)
(* IEEE 754: the integers up to FloatMax are exact, a larger magnitude     *)
(* below 2 * FloatMax rounds to FloatMax, anything from there on overflows *)
(* to infinity. A finite number is v / sqrt(r); a norm is sqrt(v).         *)
(***************************************************************************)

\* Largest finite number of the floating-point format.
FloatMax == 100

\* Largest length of the flattened vector x.
MaxLen == 2

Fin(n) == [k |-> "fin", v |-> n, r |-> 1]

Inf(sign) == [k |-> "inf", v |-> sign, r |-> 1]

NaN == [k |-> "nan", v |-> 0, r |-> 1]

IsNaN(a) == a.k = "nan"

\* jnp.isinf
IsInf(a) == a.k = "inf"

\* a == 0
IsZero(a) == a.k \in {"fin", "sqrt"} /\ a.v = 0

Sign(a) == IF a.v < 0 THEN -1 ELSE 1

Abs(n) == IF n < 0 THEN 0 - n ELSE n

\* Rounding of an exact integer result to the format.
Round(n) ==
    IF Abs(n) <= FloatMax THEN Fin(n)
    ELSE IF Abs(n) < 2 * FloatMax THEN Fin(IF n < 0 THEN 0 - FloatMax ELSE FloatMax)
    ELSE Inf(IF n < 0 THEN -1 ELSE 1)

\* a * b
FMul(a, b) ==
    IF IsNaN(a) \/ IsNaN(b) THEN NaN
    ELSE IF IsInf(a) \/ IsInf(b)
         THEN IF IsZero(a) \/ IsZero(b) THEN NaN ELSE Inf(Sign(a) * Sign(b))
    ELSE Round(a.v * b.v)

\* a + b
FAdd(a, b) ==
    IF IsNaN(a) \/ IsNaN(b) THEN NaN
    ELSE IF IsInf(a) /\ IsInf(b) THEN (IF a.v = b.v THEN a ELSE NaN)
    ELSE IF IsInf(a) THEN a
    ELSE IF IsInf(b) THEN b
    ELSE Round(a.v + b.v)

\* jnp.sqrt of a sum of squares
FSqrt(a) ==
    IF IsNaN(a) \/ IsInf(a) THEN a ELSE [k |-> "sqrt", v |-> a.v, r |-> 1]

\* a / b for a divisor that is 1, a norm, infinite or NaN
FDiv(a, b) ==
    IF IsNaN(a) \/ IsNaN(b) THEN NaN
    ELSE IF IsInf(b) THEN (IF IsInf(a) THEN NaN ELSE Fin(0))
    ELSE IF IsZero(b) THEN (IF IsZero(a) THEN NaN ELSE Inf(Sign(a)))
    ELSE IF b = Fin(1) THEN a
    ELSE IF IsInf(a) THEN a
    ELSE IF IsZero(a) THEN Fin(0)
    ELSE [k |-> "fin", v |-> a.v, r |-> IF b.k = "sqrt" THEN b.v ELSE b.v * b.v]

\* jnp.sum
RECURSIVE FSum(_)
FSum(xs) == IF xs = <<>> THEN Fin(0) ELSE FAdd(FSum(SubSeq(xs, 1, Len(xs) - 1)), xs[Len(xs)])

\* jnp.dot(x, tx) of two vectors of one length
FDot(x, tx) == FSum([j \in DOMAIN x |-> FMul(x[j], tx[j])])

\* _two_norm(x): sqrt(sum(real(x * conj(x)))) for a real vector x
TwoNorm(x) == FSqrt(FSum([j \in DOMAIN x |-> FMul(x[j], x[j])]))

\* A faulty variant of _two_norm_jvp: only a zero norm is guarded.
TwoNormJvpZeroOnly(x, tx) ==
    LET out         == TwoNorm(x)
        pred        == IsZero(out)
        numerator   == IF pred THEN Fin(0) ELSE FDot(x, tx)
        denominator == IF pred THEN Fin(1) ELSE out
    IN  [out |-> out, t_out |-> FDiv(numerator, denominator)]

\* _two_norm_jvp((x,), (tx,))
TwoNormJvp(x, tx) ==
    LET out         == TwoNorm(x)
        pred        == IsZero(out) \/ IsInf(out)
        numerator   == IF pred THEN Fin(0) ELSE FDot(x, tx)
        denominator == IF pred THEN Fin(1) ELSE out
    IN  [out |-> out, t_out |-> FDiv(numerator, denominator)]

PrimalValues == {Fin(-1), Fin(0), Fin(2), Fin(FloatMax), Inf(1), NaN}

TangentValues == {Fin(-3), Fin(0), Fin(1), Inf(-1), NaN}

InitNorm ==
    /\ CacheIdle
    /\ ia = Idle
    /\ ls = Idle
    /\ rc = Idle
    /\ jac = Idle
    /\ td = Idle
    /\ \E n \in 1..MaxLen :
          \E x \in [1..n -> PrimalValues], tx \in [1..n -> TangentValues] :
              nrm = [pc |-> "call", x |-> x, tx |-> tx, out |-> NaN, t_out |-> NaN]

CallTwoNormJvp ==
    /\ nrm.pc = "call"
    /\ LET r == TwoNormJvp(nrm.x, nrm.tx)
       IN  nrm' = [nrm EXCEPT !.pc = "done", !.out = r.out, !.t_out = r.t_out]
    /\ UNCHANGED <<cacheVars, rc, jac, td, ia, ls>>

NextNorm == CallTwoNormJvp

SpecNorm == InitNorm /\ [][NextNorm]_vars

\* C7: the primal output is norm(x); the tangent output is dot(x, t) /
\* norm(x) when norm(x) is finite and not zero, and exactly 0 when norm(x)
\* is 0 or infinite, whatever the tangent t.
C7_NormDerivative ==
    nrm.pc = "done" =>
        LET norm == FSqrt(FSum([j \in DOMAIN nrm.x |-> FMul(nrm.x[j], nrm.x[j])]))
        IN  /\ nrm.out = norm
            /\ (IsZero(norm) \/ IsInf(norm)) => nrm.t_out = Fin(0)
            /\ (norm.k = "sqrt" /\ norm.v > 0)
                  => nrm.t_out = FDiv(FDot(nrm.x, nrm.tx), norm)

\* C7 witness: an infinite norm and an infinite tangent give derivative 0.
C7_Witness ==
    /\ nrm.pc = "done"
    /\ nrm.x = <<Inf(1), Fin(2)>>
    /\ nrm.tx = <<Inf(-1), NaN>>
    /\ IsInf(nrm.out)
    /\ nrm.t_out = Fin(0)

\* C7 witness: x = 0 with a NaN tangent gives derivative 0.
C7_WitnessZero ==
    /\ nrm.pc = "done"
    /\ nrm.x = <<Fin(0), Fin(0)>>
    /\ nrm.tx = <<NaN, Fin(1)>>
    /\ nrm.t_out = Fin(0)

\* C7 witness: the regular case, x = (2, -1), t = (1, -3): 5 / sqrt(5).
C7_WitnessRegular ==
    /\ nrm.pc = "done"
    /\ nrm.x = <<Fin(2), Fin(-1)>>
    /\ nrm.tx = <<Fin(1), Fin(-3)>>
    /\ nrm.t_out = [k |-> "fin", v |-> 5, r |-> 5]

(***************************************************************************)
(* tree_dot                                                                *)
(***************************************************************************)

\* Largest number of leaves of a container.
MaxLeaves == 2

\* The arrays a leaf may be (flattened).
LeafArrays == {<<1, 2>>, <<3, -1>>, <<2>>}

\* A container is a list of lists of leaves.
TreeNodes == UNION {[1..j -> LeafArrays] : j \in 1..MaxLeaves}

RECURSIVE Flatten(_)
Flatten(nodes) == IF nodes = <<>> THEN <<>> ELSE Head(nodes) \o Flatten(Tail(nodes))

\* jtu.tree_leaves: the leaves in flattening order.
tree_leaves(tree) == Flatten(tree)

Trees ==
    {t \in UNION {[1..j -> TreeNodes] : j \in 0..MaxLeaves} : Len(Flatten(t)) <= MaxLeaves}

Raised(e) == [err |-> e, val |-> 0]

Returned(v) == [err |-> "none", val |-> v]

RECURSIVE DotSeq(_, _)
DotSeq(u, v) == IF u = <<>> THEN 0 ELSE u[1] * v[1] + DotSeq(Tail(u), Tail(v))

\* jnp.vdot(ai, bi): the inner product of two real arrays of one size; arrays
\* of different sizes raise.
vdot(ai, bi) ==
    IF Len(ai) = Len(bi) THEN Returned(DotSeq(ai, bi)) ELSE Raised("TypeError")

\* sum(vdot(ai, bi) for ai, bi in zip(a, b)): zip stops at the shorter list,
\* and the first raising term ends the sum.
RECURSIVE SumZip(_, _, _)
SumZip(a, b, acc) ==
    IF a = <<>> \/ b = <<>> THEN Returned(acc)
    ELSE LET t == vdot(Head(a), Head(b))
         IN  IF t.err # "none" THEN t ELSE SumZip(Tail(a), Tail(b), acc + t.val)

\* A faulty variant of tree_dot: the leaf counts are not compared.
TreeDotUnchecked(ta, tb) == SumZip(tree_leaves(ta), tree_leaves(tb), 0)

\* tree_dot(a, b)
tree_dot(ta, tb) ==
    LET a == tree_leaves(ta)
        b == tree_leaves(tb)
    IN  IF Len(a) # Len(b) THEN Raised("AssertionError") ELSE SumZip(a, b, 0)

InitDot ==
    /\ CacheIdle
    /\ ia = Idle
    /\ ls = Idle
    /\ rc = Idle
    /\ jac = Idle
    /\ nrm = Idle
    /\ \E ta \in Trees, tb \in Trees :
          td = [pc |-> "call", a |-> ta, b |-> tb, res |-> Returned(0)]

CallTreeDot ==
    /\ td.pc = "call"
    /\ td' = [td EXCEPT !.pc = "done", !.res = tree_dot(td.a, td.b)]
    /\ UNCHANGED <<cacheVars, rc, jac, nrm, ia, ls>>

NextDot == CallTreeDot

SpecDot == InitDot /\ [][NextDot]_vars

\* The leaves of the two containers pair up into arrays of equal sizes.
Conformable(a, b) == \A j \in DOMAIN a : Len(a[j]) = Len(b[j])

RECURSIVE SumOver(_, _, _)
SumOver(a, b, j) ==
    IF j = 0 THEN 0
    ELSE SumOver(a, b, j - 1) + DotSeq(a[j], b[j])

\* C8: tree_dot raises and returns nothing when the leaf counts differ; with
\* equal leaf counts (and leaves whose inner products exist) it returns the
\* sum over i of the inner product of the i-th leaves, 0 for no leaves.
C8_TreeDot ==
    td.pc = "done" =>
        LET a == Flatten(td.a)
            b == Flatten(td.b)
        IN  /\ Len(a) # Len(b) => td.res = Raised("AssertionError")
            /\ (Len(a) = Len(b) /\ Conformable(a, b))
                  => td.res = Returned(SumOver(a, b, Len(a)))
            /\ (Len(a) = 0 /\ Len(b) = 0) => td.res = Returned(0)

\* C8 witness: one leaf against two leaves raises.
C8_Witness ==
    /\ td.pc = "done"
    /\ td.a = <<<<<<1, 2>>>>>>
    /\ td.b = <<<<<<1, 2>>, <<3, -1>>>>>>
    /\ td.res.err = "AssertionError"

\* C8 witness: [[1,2]], [[3,-1]] against [[3,-1], [1,2]] gives 1 + 1 = 2.
C8_WitnessSum ==
    /\ td.pc = "done"
    /\ td.a = <<<<<<1, 2>>>>, <<<<3, -1>>>>>>
    /\ td.b = <<<<<<3, -1>>, <<1, 2>>>>>>
    /\ td.res = Returned(2)

(***************************************************************************)
(* inexact_asarray                                                         *)
(***************************************************************************)

IntDtypes == {"bool", "int8", "int16", "int32", "int64",
              "uint8", "uint16", "uint32", "uint64"}

\* The dtypes that are subdtypes of jnp.inexact.
InexactDtypes == {"bfloat16", "float16", "float32", "float64",
                  "complex64", "complex128"}

Dtypes == IntDtypes \cup InexactDtypes

\* The dtype JAX uses for a requested dtype: without jax_enable_x64 the
\* 64-bit dtypes become their 32-bit counterparts.
Canonicalize(dtype, x64) ==
    IF x64 THEN dtype
    ELSE CASE dtype = "int64"      -> "int32"
           [] dtype = "uint64"     -> "uint32"
           [] dtype = "float64"    -> "float32"
           [] dtype = "complex128" -> "complex64"
           [] OTHER                -> dtype

\* The inputs: Python scalars, NumPy arrays of any dtype, JAX arrays of any
\* dtype JAX can hold under the flag.
AsarrayInputs(x64) ==
    {[src |-> "python", dtype |-> t] : t \in {"bool", "int", "float", "complex"}}
    \cup {[src |-> "numpy", dtype |-> d] : d \in Dtypes}
    \cup {[src |-> "jax", dtype |-> Canonicalize(d, x64)] : d \in Dtypes}

\* jnp.result_type(x)
result_type(x, x64) ==
    IF x.src = "python"
    THEN CASE x.dtype = "bool"    -> "bool"
           [] x.dtype = "int"     -> Canonicalize("int64", x64)
           [] x.dtype = "float"   -> Canonicalize("float64", x64)
           [] x.dtype = "complex" -> Canonicalize("complex128", x64)
    ELSE Canonicalize(x.dtype, x64)

\* jnp.issubdtype(dtype, jnp.inexact)
IsInexact(dtype) == dtype \in InexactDtypes

\* A faulty variant of default_floating_dtype: the flag is not consulted.
DefaultFloatingDtypeSingle(x64) == "float32"

\* default_floating_dtype()
default_floating_dtype(x64) == IF x64 THEN "float64" ELSE "float32"

\* _asarray(dtype, x): jnp.asarray(x, dtype=dtype)
Asarray(dtype, x, x64) == [src |-> "jax", dtype |-> Canonicalize(dtype, x64)]

\* inexact_asarray(x)
inexact_asarray(x, x64) ==
    LET dtype == IF ~IsInexact(result_type(x, x64))
                 THEN default_floating_dtype(x64)
                 ELSE result_type(x, x64)
    IN  Asarray(dtype, x, x64)

InitAsarray ==
    /\ CacheIdle
    /\ rc = Idle
    /\ jac = Idle
    /\ nrm = Idle
    /\ td = Idle
    /\ ls = Idle
    /\ \E x64 \in BOOLEAN :
          \E x \in AsarrayInputs(x64) :
              ia = [pc |-> "call", x64 |-> x64, x |-> x, out |-> x, out2 |-> x]

\* inexact_asarray(x)
ApplyAsarray ==
    /\ ia.pc = "call"
    /\ ia' = [ia EXCEPT !.pc = "once", !.out = inexact_asarray(ia.x, ia.x64)]
    /\ UNCHANGED <<cacheVars, rc, jac, nrm, td, ls>>

\* inexact_asarray(inexact_asarray(x))
ApplyAsarrayAgain ==
    /\ ia.pc = "once"
    /\ ia' = [ia EXCEPT !.pc = "twice", !.out2 = inexact_asarray(ia.out, ia.x64)]
    /\ UNCHANGED <<cacheVars, rc, jac, nrm, td, ls>>

NextAsarray == ApplyAsarray \/ ApplyAsarrayAgain

SpecAsarray == InitAsarray /\ [][NextAsarray]_vars

\* C9: the result is an array of floating or complex dtype: the natural
\* result type of x when that is floating or complex, otherwise float64 with
\* 64-bit precision enabled and float32 without; a second application keeps
\* the dtype.
C9_InexactDtype ==
    LET natural == result_type(ia.x, ia.x64)
    IN  /\ ia.pc \in {"once", "twice"} =>
              /\ ia.out.src = "jax"
              /\ ia.out.dtype \in InexactDtypes
              /\ natural \in InexactDtypes => ia.out.dtype = natural
              /\ natural \notin InexactDtypes =>
                    ia.out.dtype = (IF ia.x64 THEN "float64" ELSE "float32")
        /\ ia.pc = "twice" => ia.out2 = ia.out

\* C9 witness: a Python int under 64-bit precision became float64 and
\* stayed float64.
C9_Witness ==
    /\ ia.pc = "twice"
    /\ ia.x64
    /\ ia.x = [src |-> "python", dtype |-> "int"]
    /\ ia.out.dtype = "float64"
    /\ ia.out2.dtype = "float64"

\* C9 witness: a float16 array keeps float16.
C9_WitnessKept ==
    /\ ia.pc = "twice"
    /\ ~ia.x64
    /\ ia.x = [src |-> "numpy", dtype |-> "float16"]
    /\ ia.out2.dtype = "float16"

(***************************************************************************)
(* linear_solve: the error contract                                        *)
(***************************************************************************)

Solvers == {"LU", "QR", "SVD", "Cholesky", "Diagonal", "Triangular",
            "Tridiagonal", "CG", "NormalCG", "GMRES"}

IterativeSolvers == {"CG", "NormalCG", "GMRES"}

Tags == {"symmetric", "positive_semidefinite", "lower_triangular",
         "diagonal", "tridiagonal"}

\* The tags a solver requires of its operator.
RequiredTags(solver) ==
    CASE solver \in {"Cholesky", "CG"} -> {"symmetric", "positive_semidefinite"}
      [] solver = "Diagonal"           -> {"diagonal"}
      [] solver = "Triangular"         -> {"lower_triangular"}
      [] solver = "Tridiagonal"        -> {"tridiagonal"}
      [] OTHER                         -> {}

\* The statuses a solver can end with: a direct solver may find the operator
\* singular, an iterative one may hit its iteration cap or break down.
Outcomes(solver) ==
    IF solver \in IterativeSolvers
    THEN {"successful", "max_steps_reached", "breakdown"}
    ELSE {"successful", "singular"}

Raise(e) == [pc |-> "raised", error |-> e, status |-> "none", structured |-> FALSE]

Return(status) ==
    [pc |-> "returned", error |-> "none", status |-> status, structured |-> TRUE]

\* A faulty variant of linear_solve: throw=False is not honoured.
LinearSolveAlwaysThrows(structure_ok, solver, tags, throw, outcome) ==
    IF ~structure_ok THEN Raise("StructureMismatch")
    ELSE IF ~(RequiredTags(solver) \subseteq tags) THEN Raise("TagViolation")
    ELSE IF outcome # "successful" THEN Raise("SolverError")
    ELSE Return(outcome)

\* linear_solve(operator, b, solver, throw) for a solver run ending with
\* the status outcome.
LinearSolve(structure_ok, solver, tags, throw, outcome) ==
    IF ~structure_ok THEN Raise("StructureMismatch")
    ELSE IF ~(RequiredTags(solver) \subseteq tags) THEN Raise("TagViolation")
    ELSE IF throw /\ outcome # "successful" THEN Raise("SolverError")
    ELSE Return(outcome)

InitSolve ==
    /\ CacheIdle
    /\ rc = Idle
    /\ jac = Idle
    /\ nrm = Idle
    /\ td = Idle
    /\ ia = Idle
    /\ \E ok \in BOOLEAN, solver \in Solvers, tags \in SUBSET Tags, throw \in BOOLEAN :
          ls = [pc |-> "call", structure_ok |-> ok, solver |-> solver, tags |-> tags,
                throw |-> throw, outcome |-> "none", res |-> Return("none")]

CallLinearSolve ==
    /\ ls.pc = "call"
    /\ \E outcome \in Outcomes(ls.solver) :
          ls' = [ls EXCEPT !.pc = "done", !.outcome = outcome,
                           !.res = LinearSolve(ls.structure_ok, ls.solver, ls.tags,
                                               ls.throw, outcome)]
    /\ UNCHANGED <<cacheVars, rc, jac, nrm, td, ia>>

NextSolve == CallLinearSolve

SpecSolve == InitSolve /\ [][NextSolve]_vars

\* C10: linear_solve raises exactly on a structure or tag error (whatever
\* throw is) or on a numerical failure with throw=True; with throw=False a
\* numerical failure returns a result with the failure status and a value
\* that has the structure of a solution.
C10_RaisesExactly ==
    ls.pc = "done" =>
        LET bad    == ~ls.structure_ok \/ ~(RequiredTags(ls.solver) \subseteq ls.tags)
            failed == ls.outcome # "successful"
        IN  /\ (ls.res.pc = "raised") <=> (bad \/ (failed /\ ls.throw))
            /\ bad => ls.res.error \in {"StructureMismatch", "TagViolation"}
            /\ (~bad /\ failed /\ ~ls.throw)
                  => /\ ls.res.pc = "returned"
                     /\ ls.res.status = ls.outcome
                     /\ ls.res.structured

\* C10 witness: CG without throwing hit its iteration cap and returned.
C10_Witness ==
    /\ ls.pc = "done"
    /\ ls.solver = "CG"
    /\ ~ls.throw
    /\ ls.outcome = "max_steps_reached"
    /\ ls.res.pc = "returned"
    /\ ls.res.status = "max_steps_reached"

====
